---- MODULE Spec2Model ----
(***************************************************************************)
(* A model of the MiniMQTT client (adafruit_minimqtt.py): the session      *)
(* state of one MQTT object, the module-level packet buffers it shares     *)
(* between calls, the byte stream the broker has sent and the client has   *)
(* not read yet, and one action per public method.  A call that blocks for *)
(* an acknowledgment is split at its suspension point: the action that     *)
(* starts it writes the request, and one further action per iteration of   *)
(* its `while 1: op = self.wait_for_msg()` loop.                           *)
(*                                                                         *)
(* Bytes are the integers 0..255; byte strings (topics, payloads, packets) *)
(* are sequences of bytes.                                                 *)
(***************************************************************************)
EXTENDS Integers, Sequences, FiniteSets, TLC

VARIABLES
    _is_connected,       \* self._is_connected
    _sock,               \* self._sock: "unset" (attribute never assigned), "open", "closed"
    _pid,                \* self._pid
    _subscribed_topics,  \* self._subscribed_topics, a list (duplicates possible)
    MQTT_PUB,            \* the module-level bytearray every publish() aliases as pkt
    rx,                  \* bytes the broker has sent on the current socket, not read yet
    pc,                  \* "idle", the method blocked in its acknowledgment loop, or
                         \* "done": a call has just ended and the application sees how
    frame,               \* the locals of the blocked method
    trace,               \* what the last step did: socket operations and callbacks, in order
    result               \* how the last call ended, or that it is still running

vars == <<_is_connected, _sock, _pid, _subscribed_topics, MQTT_PUB, rx, pc,
          frame, trace, result>>

-----------------------------------------------------------------------------
(* Bounds of the model. *)

\* the broker sends a packet only while at most this many bytes are unread
MaxBacklog == 0
\* publish() calls with qos > 0 explored (each adds 1 to self._pid)
MaxQosPublishes == 1
\* subscribe() and unsubscribe() calls explored (each adds 11 to self._pid)
MaxSubCalls == 3
\* longest subscription list explored
MaxSubs == 2

\* The largest packet id two bytes hold: struct.pack_into("!H", ...) and
\* int.to_bytes(2, 'big').
PidLimit == 65535

\* Calls are also explored from this value of self._pid up to PidLimit.
PidHigh == PidLimit - 11 * MaxSubCalls

\* self._pid is 11 * (subscribe and unsubscribe calls) + (qos > 0 publishes)
\* while fewer than 11 publishes were made.
MayPublishQos(pid) ==
    pid % 11 < MaxQosPublishes \/ (PidHigh <= pid /\ pid <= PidLimit)
MaySubCall(pid) ==
    pid \div 11 < MaxSubCalls \/ (PidHigh <= pid /\ pid <= PidLimit)

\* What packing the id n into two bytes does: it packs it; or, n not fitting,
\* it raises (CPython; int.to_bytes of recent MicroPython) or keeps the low
\* 16 bits (MicroPython's struct, int.to_bytes of older builds).
IdBytesOutcomes(n) ==
    IF n > PidLimit THEN {"raise", "truncate"} ELSE {"pack"}

-----------------------------------------------------------------------------
(* Program constants. *)

MQTT_PINGRESP == 208
MQTT_TOPIC_LENGTH_LIMIT == 65535
MQTT_MSG_MAX_SZ == 268435455
MQTT_TLS_PORT == 8883

MQTT_PINGREQ == <<192, 0>>
MQTT_SUB == <<130>>
MQTT_UNSUB == <<162>>
MQTT_DISCONNECT == <<224, 0>>
\* MQTT_PUB as the module is loaded
MQTT_PUB_INIT == <<48, 0>>
\* MQTT_CON as the module is loaded
MQTT_CON == <<16, 0, 0>>
\* MQTT_CON_HEADER as the module is loaded: "\x04MQTT\x04\x02\0\0"
MQTT_CON_HEADER == <<4, 77, 81, 84, 84, 4, 2, 0, 0>>

\* A table that gives every code the same text.
CONNACK_ERRORS_OneText == [c \in 1..5 |-> "Connection Refused"]

\* CONNACK_ERRORS: the reason text of each return code of the table
CONNACK_ERRORS ==
    [c \in 1..5 |->
        CASE c = 1 -> "Connection Refused - Incorrect Protocol Version"
          [] c = 2 -> "Connection Refused - ID Rejected"
          [] c = 3 -> "Connection Refused - Server unavailable"
          [] c = 4 -> "Connection Refused - Incorrect username/password"
          [] c = 5 -> "Connection Refused - Unauthorized"]

-----------------------------------------------------------------------------
(* Byte arithmetic. *)

RECURSIVE BitAnd(_, _)
BitAnd(a, b) ==
    IF a = 0 \/ b = 0 THEN 0
    ELSE (a % 2) * (b % 2) + 2 * BitAnd(a \div 2, b \div 2)

RECURSIVE BitOr(_, _)
BitOr(a, b) ==
    IF a = 0 THEN b
    ELSE IF b = 0 THEN a
    ELSE (IF a % 2 = 1 \/ b % 2 = 1 THEN 1 ELSE 0) + 2 * BitOr(a \div 2, b \div 2)

\* struct.pack("!H", n) and int.to_bytes(2, 'big'), for 0 <= n <= 65535
PackH(n) == <<(n \div 256) % 256, n % 256>>

\* b[0] << 8 | b[1]
UnpackH(b) == b[1] * 256 + b[2]

Min(a, b) == IF a < b THEN a ELSE b

RECURSIVE SumLen(_)
SumLen(ts) == IF ts = <<>> THEN 0 ELSE Len(Head(ts)) + SumLen(Tail(ts))

\* str(n).encode('ascii') of a non-negative int
RECURSIVE Digits(_)
Digits(n) == IF n < 10 THEN <<48 + n>> ELSE Digits(n \div 10) \o <<48 + (n % 10)>>

-----------------------------------------------------------------------------
(* The record of what a call did. *)

\* conn is the value of self._is_connected when the event happened; At stamps it.
Ev(kind, name, topic, data) ==
    [ev |-> kind, name |-> name, topic |-> topic, data |-> data, conn |-> FALSE]

At(c, evs) == [i \in DOMAIN evs |-> [evs[i] EXCEPT !.conn = c]]

\* self._sock.write(bytes)
W(bytes) == Ev("write", "", <<>>, bytes)
\* self._sock.read(n) that returned `bytes` (empty: the read timed out)
R(bytes) == Ev("read", "", <<>>, bytes)
\* a user callback, invoked with a topic and integer arguments
Cb(name, topic, data) == Ev("cb", name, topic, data)

\* socket() and close()
Open == Ev("open", "", <<>>, <<>>)
Close == Ev("close", "", <<>>, <<>>)

\* The events of one step.
StepLog(evs) == evs

\* The events of a step that continues with further operations.
Log(tr, evs) == tr \o evs

\* How a call ended: the exception it raised ("" when it returned), the
\* exception's text, and the value returned (<<>> for None).
Outcome(op, exc, text, ret) == [op |-> op, exc |-> exc, text |-> text, ret |-> ret]

Ok(op) == Outcome(op, "", "", <<>>)

Raised(op, exc) == Outcome(op, exc, "", <<>>)

\* The call is in progress.
Running(op) == Outcome(op, "running", "", <<>>)

NoFrame == [pid |-> 0, topics |-> <<>>, packet |-> <<>>, caller |-> "", resub |-> FALSE,
            sz |-> 0]

-----------------------------------------------------------------------------
(* The client as constructed:
     MQTT(socket, server, password="", esp=esp)
   no user name, generated client id, TLS port, every callback slot set by
   the application right after construction. *)

ClientId == <<99, 112, 121>>
User == <<>>
HasUser == FALSE
Pass == <<>>
Port == MQTT_TLS_PORT

TopicA == <<97>>
TopicB == <<98>>
Topics == {TopicA, TopicB}

Init ==
    /\ _is_connected = FALSE
    /\ _sock = "unset"
    /\ _pid = 0
    /\ _subscribed_topics = <<>>
    /\ MQTT_PUB = MQTT_PUB_INIT
    /\ rx = <<>>
    /\ pc = "idle"
    /\ frame = NoFrame
    /\ trace = <<>>
    /\ result = Ok("")

-----------------------------------------------------------------------------
(* The transport: a byte stream.  read(n) returns the next n bytes, or fewer
   (possibly none) when the stream holds fewer and the timeout expires. *)

Read(buf, n) ==
    LET k == IF n < 0 THEN 0 ELSE Min(n, Len(buf))
    IN  [data |-> SubSeq(buf, 1, k), rest |-> SubSeq(buf, k + 1, Len(buf))]

\* `res == MQTT_PINGRESP` compares the bytes object read(1) returned with the
\* int 0xd0: a bytes object never equals an int.
BytesEqInt(b, n) == FALSE

\* is_connected() that looks at the socket attribute only.
IsConnectedExc_SocketOnly(sock, conn) ==
    IF sock = "unset" THEN "AttributeError" ELSE ""

\* is_connected() with self._sock and self._is_connected as given: the
\* exception it raises, "" when it returns.  Reading self._sock before any
\* connect() raises AttributeError: __init__ does not assign it.
IsConnectedExc(sock, conn) ==
    IF sock = "unset" THEN "AttributeError"
    ELSE IF conn = FALSE THEN "MMQTTException"
    ELSE ""

is_connected == IsConnectedExc(_sock, _is_connected)

\* The text of the exception is_connected() raises.
IsConnectedText(exc) ==
    IF exc = "MMQTTException" THEN "MiniMQTT is not connected." ELSE ""

\* The call op ended in the exception of is_connected().
NotConnected(op) == [op |-> op, exc |-> is_connected,
                     text |-> IsConnectedText(is_connected), ret |-> <<>>]

\* _send_str(string): the two writes
SendStr(str) == <<W(PackH(Len(str))), W(str)>>

\* _check_topic(topic): TRUE when it raises ('Topic may not be empty.',
\* 'Topic length is too large.')
CheckTopicFails(topic) ==
    Len(topic) = 0 \/ Len(topic) > MQTT_TOPIC_LENGTH_LIMIT

\* _recv_len(): the decoded remaining length, having read from buf
RECURSIVE RecvLen(_, _, _)
RecvLen(buf, n, mult) ==
    IF buf = <<>> THEN [n |-> n, rest |-> buf, exc |-> "IndexError"]
    ELSE LET b == Head(buf)
             m == n + (b % 128) * mult
         IN  IF b < 128 THEN [n |-> m, rest |-> Tail(buf), exc |-> ""]
             ELSE RecvLen(Tail(buf), m, mult * 128)

WfmRet(buf, rest, op, evs, exc) ==
    [rx |-> rest,
     op |-> op,
     ev |-> <<R(SubSeq(buf, 1, Len(buf) - Len(rest)))>> \o evs,
     exc |-> exc]

\* The PUBACK buffer written as it is created, the id not packed into it.
PubackReply_NoId(pid) == <<64, 2, 0, 0>>

\* pkt = bytearray(b"\x40\x02\0\0"); struct.pack_into("!H", pkt, 2, pid)
PubackReply(pid) == <<64, 2>> \o PackH(pid)

\* The PUBLISH branch of wait_for_msg, res0 being the fixed-header byte and
\* body the stream after it.
WfmPublish(buf, res0, body) ==
    LET l == RecvLen(body, 0, 1) IN
    IF l.exc # "" THEN WfmRet(buf, l.rest, <<>>, <<>>, l.exc)
    ELSE
    LET tl == Read(l.rest, 2) IN
    IF Len(tl.data) < 2 THEN WfmRet(buf, tl.rest, <<>>, <<>>, "IndexError")
    ELSE
    LET topic_len == UnpackH(tl.data)
        tp == Read(tl.rest, topic_len)
        sz1 == l.n - (topic_len + 2)
        hasPid == BitAnd(res0, 6) # 0
        pd == IF hasPid THEN Read(tp.rest, 2) ELSE [data |-> <<>>, rest |-> tp.rest]
    IN
    IF hasPid /\ Len(pd.data) < 2 THEN WfmRet(buf, pd.rest, <<>>, <<>>, "IndexError")
    ELSE
    LET sz2 == IF hasPid THEN sz1 - 2 ELSE sz1
        ms == Read(pd.rest, sz2)
        cb == <<Cb("on_message", tp.data, ms.data)>>
    IN
    IF BitAnd(res0, 6) = 2
    THEN WfmRet(buf, ms.rest, <<res0>>,
                cb \o <<W(PubackReply(UnpackH(pd.data)))>>, "")
    ELSE IF BitAnd(res0, 6) = 4
    THEN WfmRet(buf, ms.rest, <<>>, cb, "AssertionError")
    ELSE WfmRet(buf, ms.rest, <<res0>>, cb, "")

\* wait_for_msg() on the stream buf: the stream it leaves, the value it
\* returns (<<>> for None, <<b>> for the int b), what it did, and the
\* exception it raised ("" for none).
wait_for_msg(buf) ==
    LET r1 == Read(buf, 1) IN
    IF r1.data = <<>> THEN WfmRet(buf, buf, <<>>, <<>>, "")
    ELSE IF BytesEqInt(r1.data, MQTT_PINGRESP)
    THEN LET r2 == Read(r1.rest, 1) IN
         IF r2.data = <<>> THEN WfmRet(buf, r2.rest, <<>>, <<>>, "IndexError")
         ELSE IF r2.data[1] # 0 THEN WfmRet(buf, r2.rest, <<>>, <<>>, "AssertionError")
         ELSE WfmRet(buf, r2.rest, <<>>, <<>>, "")
    ELSE IF BitAnd(r1.data[1], 240) # 48
    THEN WfmRet(buf, r1.rest, <<r1.data[1]>>, <<>>, "")
    ELSE WfmPublish(buf, r1.data[1], r1.rest)

-----------------------------------------------------------------------------
(* connect() *)

\* The remaining-length loop of connect() and publish():
\*     i = 1
\*     while sz > 0x7f: pkt[i] = (sz & 0x7f) | 0x80; sz >>= 7; i += 1
\*     pkt[i] = sz
\* on the bytearray pkt, from index i (0-based): the bytearray it leaves and
\* the IndexError of a store past its end.
RECURSIVE EncodeLen(_, _, _)
EncodeLen(pkt, i, sz) ==
    IF i + 1 > Len(pkt) THEN [pkt |-> pkt, exc |-> "IndexError"]
    ELSE IF sz > 127
    THEN EncodeLen([pkt EXCEPT ![i + 1] = (sz % 128) + 128], i + 1, sz \div 128)
    ELSE [pkt |-> [pkt EXCEPT ![i + 1] = sz], exc |-> ""]

\* premsg = MQTT_CON, then the remaining-length loop on it
ConnectEncode(sz) == EncodeLen(MQTT_CON, 1, sz)

\* What connect() may read as its four CONNACK bytes.
ConnackReplies ==
    {<<32, 2, 0, 0>>, <<32, 2, 1, 0>>, <<32, 2, 2, 0>>, <<32, 2, 0, 2>>, <<32, 2, 0, 5>>,
     <<32, 2, 0, 6>>, <<32, 3, 0, 0>>, <<>>}

\* What the transport does to sock.connect() and then answers: it raises
\* RuntimeError (bad address), raises OSError (network failure), or
\* connects and delivers a reply.
NetReplies ==
    {<<"RuntimeError", <<>>>>, <<"OSError", <<>>>>}
        \cup {<<"ok", rc>> : rc \in ConnackReplies}

\* The flags byte taken whole instead of its bit 0.
SessionPresent_WholeByte(rc) == rc[3]

\* result = rc[2] & 1: the session-present flag of the CONNACK rc
SessionPresent(rc) == BitAnd(rc[3], 1)

\* The body of connect(clean_session) given what the transport does: the
\* exception, whether self._is_connected is set, the value returned and the
\* events.  The new socket replaces self._sock in every case.
ConnectOp(clean_session, net, rc) ==
    LET flags == BitOr(IF clean_session THEN 2 ELSE 0, IF HasUser THEN 192 ELSE 0)
        msg == [MQTT_CON_HEADER EXCEPT ![7] = flags]
        sz == 12 + Len(ClientId)
                + (IF HasUser THEN 2 + Len(User) + 2 + Len(Pass) ELSE 0)
        premsg == ConnectEncode(sz)
        sendEv == <<W(premsg.pkt), W(msg)>> \o SendStr(ClientId)
                    \o (IF HasUser THEN SendStr(User) \o SendStr(Pass) ELSE <<>>)
        fail(exc, text, evs) ==
            [exc |-> exc, text |-> text, connected |-> _is_connected,
             ret |-> <<>>, ev |-> At(_is_connected, evs)]
    IN
    IF net = "RuntimeError"
    THEN fail("MMQTTException", "Invalid server address defined.", <<Open>>)
    ELSE IF net = "OSError" THEN fail("OSError", "", <<Open>>)
    ELSE IF premsg.exc # "" THEN fail(premsg.exc, "", <<Open>>)
    ELSE IF Len(rc) < 4 THEN fail("IndexError", "", <<Open>> \o sendEv \o <<R(rc)>>)
    ELSE IF ~(rc[1] = 32 /\ rc[2] = 2)
    THEN fail("AssertionError", "", <<Open>> \o sendEv \o <<R(rc)>>)
    ELSE IF rc[4] # 0
    THEN IF rc[4] \in DOMAIN CONNACK_ERRORS
         THEN fail("MMQTTException", CONNACK_ERRORS[rc[4]], <<Open>> \o sendEv \o <<R(rc)>>)
         ELSE fail("KeyError", "", <<Open>> \o sendEv \o <<R(rc)>>)
    ELSE [exc |-> "", text |-> "", connected |-> TRUE,
          ret |-> <<SessionPresent(rc)>>,
          ev |-> At(_is_connected, <<Open>> \o sendEv \o <<R(rc)>>)
                   \o At(TRUE, <<Cb("on_connect", <<>>, <<SessionPresent(rc), rc[4]>>)>>)]

Connect(clean_session, net, rc) ==
    /\ pc = "idle"
    /\ LET c == ConnectOp(clean_session, net, rc) IN
        /\ _sock' = "open"
        /\ rx' = <<>>
        /\ _is_connected' = c.connected
        /\ trace' = c.ev
        /\ result' = Outcome("connect", c.exc, c.text, c.ret)
    /\ UNCHANGED <<_pid, _subscribed_topics, MQTT_PUB, frame>>
    /\ pc' = "done"

-----------------------------------------------------------------------------
(* disconnect(), ping() *)

\* on_disconnect called before self._is_connected is cleared.
DisconnectEvents_CallbackFirst ==
    At(TRUE, <<W(MQTT_DISCONNECT), Close, Cb("on_disconnect", <<>>, <<0>>)>>)

\* What disconnect() does once is_connected() has returned: the write, the
\* close, then (self._is_connected being False by then) the callback.
DisconnectEvents ==
    At(TRUE, <<W(MQTT_DISCONNECT), Close>>)
        \o At(FALSE, <<Cb("on_disconnect", <<>>, <<0>>)>>)

Disconnect ==
    /\ pc = "idle"
    /\ IF is_connected # ""
       THEN /\ trace' = <<>>
            /\ result' = NotConnected("disconnect")
            /\ UNCHANGED <<_sock, _is_connected, rx>>
       ELSE /\ trace' = DisconnectEvents
            /\ _sock' = "closed"
            /\ _is_connected' = FALSE
            /\ rx' = <<>>
            /\ result' = Ok("disconnect")
    /\ UNCHANGED <<_pid, _subscribed_topics, MQTT_PUB, frame>>
    /\ pc' = "done"

PingResp == <<MQTT_PINGRESP, 0>>

\* What the broker may answer to a PINGREQ before the read times out.
PingReplies == {<<>>, PingResp}

Ping(reply) ==
    /\ pc = "idle"
    /\ IF is_connected # ""
       THEN /\ trace' = <<>>
            /\ result' = NotConnected("ping")
            /\ UNCHANGED <<rx>>
       ELSE /\ LET r == Read(rx \o reply, 2) IN
                /\ rx' = r.rest
                /\ trace' = At(TRUE, <<W(MQTT_PINGREQ), R(r.data)>>)
                /\ result' =
                     IF Len(r.data) < 2 THEN Raised("ping", "IndexError")
                     ELSE IF r.data[1] # MQTT_PINGRESP \/ r.data[2] # 0
                     THEN Outcome("ping", "MMQTTException",
                                  "PINGRESP not returned from server.", <<>>)
                     ELSE Ok("ping")
    /\ UNCHANGED <<_is_connected, _sock, _pid, _subscribed_topics, MQTT_PUB, frame>>
    /\ pc' = "done"

-----------------------------------------------------------------------------
(* The broker. *)

PubAckPkt(p) == <<64, 2>> \o PackH(p)
SubAckPkt(p, granted) == <<144, 2 + Len(granted)>> \o PackH(p) \o granted
UnsubAckPkt(p) == <<176, 2>> \o PackH(p)
PublishPkt(topic, qos, p, payload) ==
    LET body == PackH(Len(topic)) \o topic
                  \o (IF qos > 0 THEN PackH(p) ELSE <<>>) \o payload
    IN  <<48 + 2 * qos, Len(body)>> \o body

\* The broker sends to a connected client.
BrokerSend(packet) ==
    /\ pc # "done"
    /\ _sock = "open"
    /\ _is_connected
    /\ Len(rx) <= MaxBacklog
    /\ rx' = rx \o packet
    /\ UNCHANGED <<_is_connected, _sock, _pid, _subscribed_topics, MQTT_PUB, pc,
                   frame, trace, result>>

\* An acknowledgment is sent while the request it answers is outstanding.
BrokerAck(packet, to) == pc = to /\ BrokerSend(packet)

-----------------------------------------------------------------------------
(* publish() *)

\* A message argument: None, a str (its UTF-8 bytes), an int, or an object of
\* another type.
MsgNone == [kind |-> "none", bytes |-> <<>>, num |-> 0]
MsgStr(b) == [kind |-> "str", bytes |-> b, num |-> 0]
MsgInt(n) == [kind |-> "int", bytes |-> <<>>, num |-> n]
MsgOther == [kind |-> "other", bytes |-> <<>>, num |-> 0]

\* str(msg).encode('ascii') / str(msg).encode('utf-8')
EncodeMsg(msg) == IF msg.kind = "int" THEN Digits(msg.num) ELSE msg.bytes

\* '+' in topic or '#' in topic
HasWildcard(topic) == \E i \in DOMAIN topic : topic[i] \in {43, 35}

PubTopics == {TopicA}
Msgs == {MsgNone, MsgStr(<<52, 50>>), MsgInt(42)}
QosArgs == {0, 1, 2}

\* The checks publish() makes before it touches a packet: the text of the
\* MMQTTException raised, "" when they pass.
PublishArgError(topic, msg, qos) ==
    IF CheckTopicFails(topic) THEN "Topic may not be empty."
    ELSE IF HasWildcard(topic) THEN "Topic can not contain wildcards."
    ELSE IF msg.kind = "none" THEN "Message can not be None."
    ELSE IF msg.kind = "other" THEN "Invalid message data type."
    ELSE IF Len(EncodeMsg(msg)) > MQTT_MSG_MAX_SZ THEN "Message size larger than 268435455b."
    ELSE IF qos < 0 \/ qos > 2 THEN "Invalid QoS level,  must be between 0 and 2."
    ELSE ""

\* pkt = MQTT_PUB; pkt[0] |= qos << 1 | retain
PublishHeader(pub, qos, retain) ==
    [pub EXCEPT ![1] = BitOr(@, BitOr(qos * 2, IF retain THEN 1 ELSE 0))]

\* assert sz < 2097152, then the remaining-length loop on pkt
PublishEncode(pkt, sz) ==
    IF sz >= 2097152 THEN [pkt |-> pkt, exc |-> "AssertionError"]
    ELSE EncodeLen(pkt, 1, sz)

Publish(topic, msg, retain, qos) ==
    /\ pc = "idle"
    /\ IF is_connected # ""
       THEN /\ trace' = <<>>
            /\ result' = NotConnected("publish")
            /\ pc' = "done"
            /\ UNCHANGED <<_pid, MQTT_PUB, frame>>
       ELSE IF PublishArgError(topic, msg, qos) # ""
       THEN /\ trace' = <<>>
            /\ result' = Outcome("publish", "MMQTTException",
                                 PublishArgError(topic, msg, qos), <<>>)
            /\ pc' = "done"
            /\ UNCHANGED <<_pid, MQTT_PUB, frame>>
       ELSE
       LET bytes == EncodeMsg(msg)
           sz == 2 + Len(topic) + Len(bytes) + (IF qos > 0 THEN 2 ELSE 0)
           enc == PublishEncode(PublishHeader(MQTT_PUB, qos, retain), sz)
           head == <<W(enc.pkt)>> \o SendStr(topic)
       IN
       IF enc.exc # ""
       THEN /\ trace' = <<>>
            /\ result' = Raised("publish", enc.exc)
            /\ MQTT_PUB' = enc.pkt
            /\ pc' = "done"
            /\ UNCHANGED <<_pid, frame>>
       ELSE IF qos = 0
       THEN /\ trace' = At(TRUE, head \o <<Cb("on_publish", <<>>, <<_pid>>), W(bytes)>>)
            /\ result' = Ok("publish")
            /\ MQTT_PUB' = enc.pkt
            /\ pc' = "done"
            /\ UNCHANGED <<_pid, frame>>
       ELSE /\ MayPublishQos(_pid)
            /\ _pid' = _pid + 1
            /\ \E o \in IdBytesOutcomes(_pid + 1) :
                 IF o = "raise"
                 THEN /\ MQTT_PUB' = enc.pkt
                      /\ trace' = At(TRUE, head)
                      /\ result' = Raised("publish", "struct.error")
                      /\ pc' = "done"
                      /\ UNCHANGED frame
                 ELSE
                 /\ MQTT_PUB' = PackH(_pid + 1)
                 /\ trace' = At(TRUE, head \o <<W(PackH(_pid + 1)),
                                                Cb("on_publish", <<>>, <<_pid + 1>>),
                                                W(bytes)>>)
                 /\ IF qos = 1
                    THEN /\ pc' = "publish"
                         /\ frame' = [NoFrame EXCEPT !.pid = _pid + 1]
                         /\ result' = Running("publish")
                    ELSE /\ result' = Raised("publish", "AssertionError")
                         /\ pc' = "done"
                         /\ UNCHANGED frame
    /\ UNCHANGED <<_is_connected, _sock, _subscribed_topics, rx>>

\* A value other than the one publish()'s loop takes for a PUBACK.
PubackOp_Publish == <<48>>

\* The value of wait_for_msg() that publish() takes for a PUBACK:
\* `if op == const(0x40)`.
PubackOp == <<64>>

\* One iteration of publish()'s `while 1:` loop.
PublishWait ==
    /\ pc = "publish"
    /\ LET w == wait_for_msg(rx)
           s == Read(w.rx, 1)
           p == Read(s.rest, 2)
           stop(exc, rest, evs) ==
               /\ pc' = "done"
               /\ frame' = NoFrame
               /\ rx' = rest
               /\ trace' = StepLog(At(TRUE, evs))
               /\ result' = Raised("publish", exc)
       IN
       IF w.exc # "" THEN stop(w.exc, w.rx, w.ev)
       ELSE IF w.op # PubackOp
       THEN /\ rx' = w.rx
            /\ trace' = StepLog(At(TRUE, w.ev))
            /\ UNCHANGED <<pc, frame, result>>
       ELSE IF s.data # <<2>> THEN stop("AssertionError", s.rest, w.ev \o <<R(s.data)>>)
       ELSE IF Len(p.data) < 2
       THEN stop("IndexError", p.rest, w.ev \o <<R(s.data \o p.data)>>)
       ELSE LET evs == w.ev \o <<R(s.data \o p.data),
                                 Cb("on_publish", <<>>, <<UnpackH(p.data)>>)>>
            IN IF frame.pid = UnpackH(p.data)
               THEN stop("", p.rest, evs)
               ELSE /\ rx' = p.rest
                    /\ trace' = StepLog(At(TRUE, evs))
                    /\ UNCHANGED <<pc, frame, result>>
    /\ UNCHANGED <<_is_connected, _sock, _pid, _subscribed_topics, MQTT_PUB>>

-----------------------------------------------------------------------------
(* subscribe() *)

\* A subscribe argument is a list of <<topic, qos>> pairs and the form it is
\* passed in: "str" (topic, qos), "tuple" ((topic, qos)), "list", or "other"
\* (an object of another type).
SubRequests ==
    {<<<<TopicA, 0>>>>, <<<<TopicB, 1>>>>, <<<<TopicA, 0>>, <<TopicB, 1>>>>, <<<<TopicA, 3>>>>}

SubForms(req) == IF Len(req) = 1 THEN {"str", "tuple", "list"} ELSE {"list"}

\* The loop over a list argument: q is checked, then t.
RECURSIVE SubListError(_)
SubListError(req) ==
    IF req = <<>> THEN ""
    ELSE IF Head(req)[2] < 0 \/ Head(req)[2] > 2 THEN "QoS level must be between 1 and 2."
    ELSE IF CheckTopicFails(Head(req)[1]) THEN "Topic may not be empty."
    ELSE SubListError(Tail(req))

\* The argument checks of subscribe(): the text of the MMQTTException raised.
SubArgError(req, form) ==
    IF form = "list" THEN SubListError(req)
    ELSE IF CheckTopicFails(req[1][1]) THEN "Topic may not be empty."
    ELSE IF req[1][2] < 0 \/ req[1][2] > 2 THEN "QoS level must be between 1 and 2."
    ELSE ""

\* for t, q in topics: packet += topic_size + t + qos_byte
RECURSIVE SubPayload(_)
SubPayload(topics) ==
    IF topics = <<>> THEN <<>>
    ELSE PackH(Len(Head(topics)[1])) \o Head(topics)[1] \o <<Head(topics)[2]>>
           \o SubPayload(Tail(topics))

\* t[0] for t in topics
RECURSIVE Names(_)
Names(topics) ==
    IF topics = <<>> THEN <<>> ELSE <<Head(topics)[1]>> \o Names(Tail(topics))

\* subscribe(topic, qos) up to and including the write of the SUBSCRIBE
\* packet, with self._sock, self._is_connected and self._pid as given: the
\* exception raised, self._pid afterwards, the packet and the events.
SubscribeCall(sock, conn, pid, req, form, ovf) ==
    LET none == [exc |-> "", text |-> "", pid |-> pid, packet |-> <<>>,
                 topics |-> <<>>, ev |-> <<>>]
        packet_length == 2 + 2 * Len(req) + Len(req) + SumLen(Names(req))
        packet == MQTT_SUB \o <<packet_length>> \o PackH(pid + 11) \o SubPayload(req)
    IN
    IF IsConnectedExc(sock, conn) # ""
    THEN [none EXCEPT !.exc = IsConnectedExc(sock, conn),
                      !.text = IsConnectedText(IsConnectedExc(sock, conn))]
    ELSE IF form = "other" THEN [none EXCEPT !.exc = "TypeError"]
    ELSE IF SubArgError(req, form) # ""
    THEN [none EXCEPT !.exc = "MMQTTException", !.text = SubArgError(req, form)]
    ELSE IF packet_length > 255 THEN [none EXCEPT !.exc = "OverflowError"]
    ELSE IF ovf = "raise" THEN [none EXCEPT !.exc = "OverflowError", !.pid = pid + 11]
    ELSE [none EXCEPT !.pid = pid + 11, !.packet = packet, !.topics = req,
                      !.ev = At(conn, <<W(packet)>>)]

Subscribe(req, form) ==
    /\ pc = "idle"
    /\ Len(_subscribed_topics) + Len(req) <= MaxSubs
    /\ \E ovf \in IdBytesOutcomes(_pid + 11) :
       LET s == SubscribeCall(_sock, _is_connected, _pid, req, form, ovf) IN
        /\ s.pid # _pid => MaySubCall(_pid)
        /\ _pid' = s.pid
        /\ trace' = s.ev
        /\ IF s.exc # ""
           THEN /\ result' = Outcome("subscribe", s.exc, s.text, <<>>)
                /\ pc' = "done"
                /\ UNCHANGED frame
           ELSE /\ result' = Running("subscribe")
                /\ pc' = "subscribe"
                /\ frame' = [NoFrame EXCEPT !.pid = s.pid, !.topics = s.topics,
                                            !.packet = s.packet, !.caller = "subscribe"]
    /\ UNCHANGED <<_is_connected, _sock, _subscribed_topics, MQTT_PUB, rx>>

\* for t in topics: on_subscribe(self, self._user_data, rc[3])
SubscribeCallbacks(topics, rc) ==
    [i \in DOMAIN topics |-> Cb("on_subscribe", <<>>, <<rc[4]>>)]

\* What subscribe() does with the four bytes rc it read after the SUBACK
\* opcode: the exception raised ("" when the SUBACK is accepted).
SubackError(rc, packet) ==
    IF Len(rc) < 2 THEN "IndexError"
    ELSE IF rc[2] # packet[3] THEN "AssertionError"
    ELSE IF Len(rc) < 3 THEN "IndexError"
    ELSE IF rc[3] # packet[4] THEN "AssertionError"
    ELSE IF Len(rc) < 4 THEN "IndexError"
    ELSE IF rc[4] = 128 THEN "MMQTTException"
    ELSE ""

\* The topics subscribe() appends to self._subscribed_topics on the SUBACK rc.
SubscribeGranted(topics, rc) == Names(topics)

\* reconnect()'s `while self._subscribed_topics:` loop, from its test to the
\* write of the next SUBSCRIBE, with the list and self._pid as given.
ResubNext(subs, pid, tr) ==
    IF subs = <<>>
    THEN /\ pc' = "done"
         /\ frame' = NoFrame
         /\ _subscribed_topics' = subs
         /\ _pid' = pid
         /\ trace' = tr
         /\ result' = Ok("reconnect")
    ELSE \E ovf \in IdBytesOutcomes(pid + 11) :
         LET feed == subs[Len(subs)]
             s == SubscribeCall("open", TRUE, pid, <<<<feed, 0>>>>, "str", ovf)
         IN /\ MaySubCall(pid)
            /\ _subscribed_topics' = SubSeq(subs, 1, Len(subs) - 1)
            /\ _pid' = s.pid
            /\ trace' = Log(tr, s.ev)
            /\ IF s.exc # ""
               THEN /\ pc' = "done"
                    /\ frame' = NoFrame
                    /\ result' = Outcome("reconnect", s.exc, s.text, <<>>)
               ELSE /\ pc' = "subscribe"
                    /\ frame' = [NoFrame EXCEPT !.pid = s.pid, !.topics = s.topics,
                                                !.packet = s.packet,
                                                !.caller = "reconnect", !.resub = TRUE]
                    /\ result' = Running("reconnect")

\* One iteration of subscribe()'s `while 1:` loop.
SubscribeWait ==
    /\ pc = "subscribe"
    /\ LET w == wait_for_msg(rx)
           r == Read(w.rx, 4)
           rc == r.data
           stop(exc, text, rest, evs) ==
               /\ pc' = "done"
               /\ frame' = NoFrame
               /\ rx' = rest
               /\ trace' = StepLog(At(TRUE, evs))
               /\ result' = Outcome(frame.caller, exc, text, <<>>)
               /\ UNCHANGED <<_subscribed_topics, _pid>>
       IN
       IF w.exc # "" THEN stop(w.exc, "", w.rx, w.ev)
       ELSE IF w.op # <<144>>
       THEN /\ rx' = w.rx
            /\ trace' = StepLog(At(TRUE, w.ev))
            /\ UNCHANGED <<pc, frame, result, _subscribed_topics, _pid>>
       ELSE IF SubackError(rc, frame.packet) # ""
       THEN stop(SubackError(rc, frame.packet),
                 IF SubackError(rc, frame.packet) = "MMQTTException"
                 THEN "SUBACK Failure!" ELSE "",
                 r.rest, w.ev \o <<R(rc)>>)
       ELSE LET evs == w.ev \o <<R(rc)>> \o SubscribeCallbacks(frame.topics, rc)
                subs == _subscribed_topics \o SubscribeGranted(frame.topics, rc)
            IN /\ rx' = r.rest
               /\ IF frame.caller = "reconnect"
                  THEN ResubNext(subs, _pid, StepLog(At(TRUE, evs)))
                  ELSE /\ pc' = "done"
                       /\ frame' = NoFrame
                       /\ _subscribed_topics' = subs
                       /\ trace' = StepLog(At(TRUE, evs))
                       /\ result' = Ok("subscribe")
                       /\ UNCHANGED _pid
    /\ UNCHANGED <<_is_connected, _sock, MQTT_PUB>>

-----------------------------------------------------------------------------
(* unsubscribe() *)

\* An unsubscribe argument is a list of topics and the form it is passed in:
\* "str", "list", or "other".
UnsubRequests ==
    {<<TopicA>>, <<TopicB>>, <<TopicA, TopicB>>}

UnsubForms(req) == IF Len(req) = 1 THEN {"str", "list"} ELSE {"list"}

InList(t, list) == \E i \in DOMAIN list : list[i] = t

\* list.remove(t): the list without the first occurrence of t
RECURSIVE Remove(_, _)
Remove(list, t) ==
    IF list = <<>> THEN <<>>
    ELSE IF Head(list) = t THEN Tail(list)
    ELSE <<Head(list)>> \o Remove(Tail(list), t)

\* The membership check made for the first topic only.
UnsubArgError_FirstTopicOnly(req, subs) ==
    IF \E i \in DOMAIN req : CheckTopicFails(req[i]) THEN "Topic may not be empty."
    ELSE IF ~InList(req[1], subs)
    THEN "Topic must be subscribed to before attempting to unsubscribe."
    ELSE ""

\* The checks unsubscribe() makes before it assembles the packet: the text of
\* the MMQTTException raised, "" when they pass.
UnsubArgError(req, subs) ==
    IF \E i \in DOMAIN req : CheckTopicFails(req[i]) THEN "Topic may not be empty."
    ELSE IF \E i \in DOMAIN req : ~InList(req[i], subs)
    THEN "Topic must be subscribed to before attempting to unsubscribe."
    ELSE ""

\* for t in topics: packet += topic_size + t
RECURSIVE UnsubPayload(_)
UnsubPayload(topics) ==
    IF topics = <<>> THEN <<>>
    ELSE PackH(Len(Head(topics))) \o Head(topics) \o UnsubPayload(Tail(topics))

\* What a write to, or a read from, a socket that was closed may do: raise
\* OSError, or do nothing (the read then times out).
ClosedOutcomes == {"OSError", "silent"}

Unsubscribe(req, form, closed) ==
    /\ pc = "idle"
    /\ LET packet_length == 2 + 2 * Len(req) + SumLen(req)
           packet == MQTT_UNSUB \o <<packet_length>> \o PackH(_pid + 11)
                       \o UnsubPayload(req)
           raise(exc, text, pid, evs) ==
               /\ result' = Outcome("unsubscribe", exc, text, <<>>)
               /\ trace' = evs
               /\ _pid' = pid
               /\ pc' = "done"
               /\ UNCHANGED frame
       IN
       IF form = "other" THEN raise("TypeError", "", _pid, <<>>)
       ELSE IF UnsubArgError(req, _subscribed_topics) # ""
       THEN raise("MMQTTException", UnsubArgError(req, _subscribed_topics), _pid, <<>>)
       ELSE IF packet_length > 255 THEN raise("OverflowError", "", _pid, <<>>)
       ELSE /\ MaySubCall(_pid)
            /\ \E ovf \in IdBytesOutcomes(_pid + 11) :
               IF ovf = "raise" THEN raise("OverflowError", "", _pid + 11, <<>>)
               ELSE IF _sock = "unset" THEN raise("AttributeError", "", _pid + 11, <<>>)
               ELSE IF _sock = "closed" /\ closed = "OSError"
               THEN raise("OSError", "", _pid + 11, At(_is_connected, <<W(packet)>>))
               ELSE /\ _pid' = _pid + 11
                    /\ trace' = At(_is_connected, <<W(packet)>>)
                    /\ result' = Running("unsubscribe")
                    /\ pc' = "unsubscribe"
                    /\ frame' = [NoFrame EXCEPT !.pid = _pid + 11, !.topics = req,
                                                !.packet = packet,
                                                !.caller = "unsubscribe"]
    /\ UNCHANGED <<_is_connected, _sock, _subscribed_topics, MQTT_PUB, rx>>

\* What unsubscribe() does with the four bytes it read after the opcode it
\* takes for UNSUBACK: the exception raised.
UnsubackError(rc, pid) ==
    IF Len(rc) < 2 THEN "IndexError"
    ELSE IF rc[2] # 2 THEN "AssertionError"
    ELSE IF Len(rc) < 3 THEN "IndexError"
    ELSE IF rc[3] # PackH(pid)[1] THEN "AssertionError"
    ELSE IF Len(rc) < 4 THEN "IndexError"
    ELSE IF rc[4] # PackH(pid)[2] THEN "AssertionError"
    ELSE ""

\* The value of wait_for_msg() that unsubscribe() takes for an UNSUBACK:
\* `if op == const(0x01)`.
UnsubackOp == <<1>>

\* for t in topics: on_unsubscribe(self, t, self._pid); remove(t) -- up to
\* the first topic that is not in the list (ValueError).
RECURSIVE UnsubscribeLoop(_, _, _)
UnsubscribeLoop(topics, subs, pid) ==
    IF topics = <<>> THEN [subs |-> subs, ev |-> <<>>, exc |-> ""]
    ELSE LET cb == Cb("on_unsubscribe", Head(topics), <<pid>>) IN
         IF ~InList(Head(topics), subs)
         THEN [subs |-> subs, ev |-> <<cb>>, exc |-> "ValueError"]
         ELSE LET rest == UnsubscribeLoop(Tail(topics), Remove(subs, Head(topics)), pid)
              IN  [rest EXCEPT !.ev = <<cb>> \o @]

\* One iteration of unsubscribe()'s `while 1:` loop.
UnsubscribeWait(closed) ==
    /\ pc = "unsubscribe"
    /\ LET w == wait_for_msg(rx)
           r == Read(w.rx, 4)
           u == UnsubscribeLoop(frame.topics, _subscribed_topics, _pid)
           stop(exc, rest, evs, subs) ==
               /\ pc' = "done"
               /\ frame' = NoFrame
               /\ rx' = rest
               /\ trace' = StepLog(At(_is_connected, evs))
               /\ result' = Raised("unsubscribe", exc)
               /\ _subscribed_topics' = subs
       IN
       IF _sock = "closed" /\ closed = "OSError"
       THEN stop("OSError", rx, <<R(<<>>)>>, _subscribed_topics)
       ELSE IF w.exc # "" THEN stop(w.exc, w.rx, w.ev, _subscribed_topics)
       ELSE IF w.op # UnsubackOp
       THEN /\ rx' = w.rx
            /\ trace' = StepLog(At(_is_connected, w.ev))
            /\ UNCHANGED <<pc, frame, result, _subscribed_topics>>
       ELSE IF UnsubackError(r.data, frame.pid) # ""
       THEN stop(UnsubackError(r.data, frame.pid), r.rest, w.ev \o <<R(r.data)>>,
                 _subscribed_topics)
       ELSE stop(u.exc, r.rest, w.ev \o <<R(r.data)>> \o u.ev, u.subs)
    /\ UNCHANGED <<_is_connected, _sock, _pid, MQTT_PUB>>

-----------------------------------------------------------------------------
(* reconnect() *)

Reconnect(resub_topics) ==
    /\ pc = "idle"
    /\ trace' = <<>>
    /\ IF _is_connected
       THEN /\ result' = Ok("reconnect")
            /\ pc' = "done"
            /\ UNCHANGED frame
       ELSE /\ result' = Running("reconnect")
            /\ pc' = "reconnect"
            /\ frame' = [NoFrame EXCEPT !.caller = "reconnect", !.resub = resub_topics]
    /\ UNCHANGED <<_is_connected, _sock, _pid, _subscribed_topics, MQTT_PUB, rx>>

\* One iteration of reconnect()'s `while not self._is_connected:` loop, up
\* to the write of the first SUBSCRIBE when topics are resubscribed.  The
\* events kept are those of this attempt.  The local `retries` is only
\* counted (and reset at 30), never read: it is not part of the state.
ReconnectAttempt(net, rc) ==
    /\ pc = "reconnect"
    /\ LET c == ConnectOp(FALSE, net, rc) IN
        /\ _sock' = "open"
        /\ rx' = <<>>
        /\ IF c.exc = "OSError"
           THEN /\ trace' = c.ev
                /\ UNCHANGED <<_is_connected, pc, frame, result, _subscribed_topics,
                               _pid>>
           ELSE IF c.exc # ""
           THEN /\ pc' = "done"
                /\ frame' = NoFrame
                /\ trace' = c.ev
                /\ result' = Outcome("reconnect", c.exc, c.text, <<>>)
                /\ UNCHANGED <<_is_connected, _subscribed_topics, _pid>>
           ELSE /\ _is_connected' = TRUE
                /\ IF frame.resub
                   THEN ResubNext(_subscribed_topics, _pid, c.ev)
                   ELSE /\ pc' = "done"
                        /\ frame' = NoFrame
                        /\ trace' = c.ev
                        /\ result' = Ok("reconnect")
                        /\ UNCHANGED <<_subscribed_topics, _pid>>
    /\ UNCHANGED MQTT_PUB

-----------------------------------------------------------------------------
(* wait_for_msg() called by the application *)

Poll(closed) ==
    /\ pc = "idle"
    /\ IF _sock = "unset"
       THEN /\ trace' = <<>>
            /\ result' = Raised("wait_for_msg", "AttributeError")
            /\ UNCHANGED rx
       ELSE IF _sock = "closed"
       THEN /\ trace' = At(_is_connected, <<R(<<>>)>>)
            /\ result' = IF closed = "OSError" THEN Raised("wait_for_msg", "OSError")
                         ELSE Ok("wait_for_msg")
            /\ UNCHANGED rx
       ELSE LET w == wait_for_msg(rx) IN
            /\ rx' = w.rx
            /\ trace' = At(_is_connected, w.ev)
            /\ result' = Outcome("wait_for_msg", w.exc, "", w.op)
    /\ UNCHANGED <<_is_connected, _sock, _pid, _subscribed_topics, MQTT_PUB,
                   frame>>
    /\ pc' = "done"

\* The call that ended returns to the application, which makes its next
\* call with nothing recorded.
Return ==
    /\ pc = "done"
    /\ pc' = "idle"
    /\ trace' = <<>>
    /\ result' = Ok("")
    /\ UNCHANGED <<_is_connected, _sock, _pid, _subscribed_topics, MQTT_PUB, rx, frame>>

-----------------------------------------------------------------------------
(* The broker's packets. *)

\* granted-QoS bytes of a SUBACK: one or two of 0, 1, 0x80
GrantedLists == {<<0>>, <<128>>, <<0, 1>>, <<0, 128>>}

\* The broker acknowledges the packet id of the outstanding request; a
\* PUBACK may also carry another id.
BrokerPuback == \E p \in {_pid, _pid + 1} : BrokerAck(PubAckPkt(p), "publish")

BrokerSuback == \E g \in GrantedLists : BrokerAck(SubAckPkt(_pid, g), "subscribe")

BrokerUnsuback == BrokerAck(UnsubAckPkt(_pid), "unsubscribe")

\* The bytes that unsubscribe()'s loop takes for its acknowledgment: a byte
\* 0x01, then four bytes of which the second is 0x02 and the last two are the
\* packet id -- here the byte 0x01 followed by an UNSUBACK.
BrokerOneThenUnsuback == BrokerAck(UnsubackOp \o UnsubAckPkt(_pid), "unsubscribe")

BrokerPingresp == BrokerSend(PingResp)

BrokerPublish ==
    \E q \in {0, 1} : BrokerSend(PublishPkt(TopicA, q, 7, <<120>>))

\* The broker forwards a message at QoS 2: subscribe() accepts a requested
\* QoS of 2.
BrokerPublishQos2 == BrokerSend(PublishPkt(TopicA, 2, 7, <<120>>))

Next ==
    \/ \E nr \in NetReplies : Connect(TRUE, nr[1], nr[2])
    \/ Disconnect
    \/ \E reply \in PingReplies : Ping(reply)
    \/ \E t \in PubTopics, m \in Msgs, r \in BOOLEAN, q \in QosArgs : Publish(t, m, r, q)
    \/ PublishWait
    \/ \E req \in SubRequests : \E f \in SubForms(req) : Subscribe(req, f)
    \/ SubscribeWait
    \/ \E req \in UnsubRequests : \E f \in UnsubForms(req), c \in ClosedOutcomes :
          Unsubscribe(req, f, c)
    \/ \E c \in ClosedOutcomes : UnsubscribeWait(c)
    \/ \E resub \in BOOLEAN : Reconnect(resub)
    \/ \E nr \in NetReplies : ReconnectAttempt(nr[1], nr[2])
    \/ \E c \in ClosedOutcomes : Poll(c)
    \/ Return
    \/ BrokerPuback
    \/ BrokerSuback
    \/ BrokerUnsuback
    \/ BrokerPingresp
    \/ BrokerPublish

Spec == Init /\ [][Next]_vars

\* The calls of a session that subscribes and unsubscribes, and the broker's
\* part in them.
UnsubscribeNext ==
    \/ \E nr \in NetReplies : Connect(TRUE, nr[1], nr[2])
    \/ \E req \in SubRequests : \E f \in SubForms(req) : Subscribe(req, f)
    \/ SubscribeWait
    \/ \E req \in UnsubRequests : \E f \in UnsubForms(req), c \in ClosedOutcomes :
          Unsubscribe(req, f, c)
    \/ \E c \in ClosedOutcomes : UnsubscribeWait(c)
    \/ Return
    \/ BrokerSuback
    \/ BrokerUnsuback
    \/ BrokerPublish

\* The loop of a blocked unsubscribe() keeps running:
\* `while 1: op = self.wait_for_msg()`.
UnsubscribeSpec ==
    /\ Init
    /\ [][UnsubscribeNext]_vars
    /\ WF_vars(\E c \in ClosedOutcomes : UnsubscribeWait(c))

\* The calls that wait for an acknowledgment, with a broker that also
\* forwards messages at every QoS and whose acknowledgment of an unsubscribe
\* may come in the bytes the loop of unsubscribe() accepts.
WaitNext ==
    \/ \E nr \in NetReplies : Connect(TRUE, nr[1], nr[2])
    \/ \E t \in PubTopics, m \in Msgs, r \in BOOLEAN, q \in QosArgs : Publish(t, m, r, q)
    \/ PublishWait
    \/ \E req \in SubRequests : \E f \in SubForms(req) : Subscribe(req, f)
    \/ SubscribeWait
    \/ \E req \in UnsubRequests : \E f \in UnsubForms(req), c \in ClosedOutcomes :
          Unsubscribe(req, f, c)
    \/ \E c \in ClosedOutcomes : UnsubscribeWait(c)
    \/ Return
    \/ BrokerPuback
    \/ BrokerSuback
    \/ BrokerUnsuback
    \/ BrokerOneThenUnsuback
    \/ BrokerPublish
    \/ BrokerPublishQos2

WaitSpec == Init /\ [][WaitNext]_vars

-----------------------------------------------------------------------------
(* Properties. *)

Reads(tr) == SelectSeq(tr, LAMBDA e : e.ev = "read")
Writes(tr) == SelectSeq(tr, LAMBDA e : e.ev = "write")
Calls(tr, name) == SelectSeq(tr, LAMBDA e : e.ev = "cb" /\ e.name = name)

\* The granted-QoS bytes of the SUBACK a subscribe() has just accepted: the
\* one it read as rc[3] and those it left in the stream.
GrantedOf(tr, rest) == <<Reads(tr)[2].data[4]>> \o rest

\* C1: a connect() made while disconnected that reads a CONNACK (0x20, 0x02)
\* whose return code is 0 leaves the session connected, returns without an
\* exception, and has invoked on_connect exactly once, with bit 0 of the
\* CONNACK flags byte and with return code 0.
C1_ConnectAccepted ==
    (/\ pc = "done"
     /\ result.op = "connect"
     /\ trace # <<>>
     /\ trace[1].conn = FALSE
     /\ Len(Reads(trace)) = 1
     /\ Len(Reads(trace)[1].data) = 4
     /\ Reads(trace)[1].data[1] = 32
     /\ Reads(trace)[1].data[2] = 2
     /\ Reads(trace)[1].data[4] = 0)
    => /\ _is_connected
       /\ result.exc = ""
       /\ Len(Calls(trace, "on_connect")) = 1
       /\ Calls(trace, "on_connect")[1].data = <<Reads(trace)[1].data[3] % 2, 0>>

\* A connect() from the disconnected state was accepted with session present.
C1_AcceptedWithSession ==
    /\ pc = "done"
    /\ result.op = "connect"
    /\ result.exc = ""
    /\ _is_connected
    /\ trace[1].conn = FALSE
    /\ Reads(trace)[1].data = <<32, 2, 1, 0>>
    /\ Calls(trace, "on_connect")[1].data = <<1, 0>>

\* C2: while publish(qos=1) is still blocked for its PUBACK, on_publish has
\* not been fired: not by the step that sent the packet, and not by a step
\* that read a PUBACK carrying another packet id.
C2_OnPublishOnlyOnMatchingPuback ==
    pc = "publish" => Calls(trace, "on_publish") = <<>>

\* A blocked publish(qos=1) read a PUBACK carrying another id, fired
\* on_publish with that id, and went on waiting.
C2_OnPublishForOtherId ==
    /\ pc = "publish"
    /\ Len(Reads(trace)) = 2
    /\ Reads(trace)[1].data = <<64>>
    /\ Calls(trace, "on_publish") # <<>>
    /\ Calls(trace, "on_publish")[1].data # <<frame.pid>>

\* C3: every publish(topic, msg, retain, qos) on a connected client that
\* sends a packet sends first a fixed-header byte with the PUBLISH opcode and
\* the flags qos << 1 | retain of that call, whatever was published before.
C3_HeaderFlagsOfThisCall ==
    [][\A m \in Msgs, r \in BOOLEAN, q \in QosArgs :
          (Publish(TopicA, m, r, q) /\ trace' # <<>>)
          => /\ trace'[1].ev = "write"
             /\ trace'[1].data[1] = 48 + 2 * q + (IF r THEN 1 ELSE 0)]_vars

\* A publish() sent a fixed-header byte that does not carry the PUBLISH opcode.
C3_HeaderNotPublishOpcode ==
    /\ pc = "done"
    /\ result = Ok("publish")
    /\ Writes(trace) # <<>>
    /\ Writes(trace)[1].data[1] \div 16 # 3

\* C4: publish(qos=2) on a connected client ends in an error, writes nothing
\* to the transport and leaves the packet id counter as it was.
C4_Qos2WritesNothing ==
    [][\A m \in Msgs, r \in BOOLEAN :
          (is_connected = "" /\ Publish(TopicA, m, r, 2))
          => /\ pc' = "done"
             /\ result'.exc # ""
             /\ Writes(trace') = <<>>
             /\ _pid' = _pid]_vars

\* A publish() that ended in the AssertionError of qos 2 had written the
\* header, the topic, the packet id and the payload.
C4_Qos2Wrote ==
    /\ pc = "done"
    /\ result = Raised("publish", "AssertionError")
    /\ Len(Writes(trace)) = 5
    /\ Calls(trace, "on_publish") = <<[Cb("on_publish", <<>>, <<_pid>>) EXCEPT !.conn = TRUE]>>

\* C5: when subscribe() returns on a SUBACK that carries one granted-QoS byte
\* per requested topic, the i-th on_subscribe call was given the i-th byte.
C5_CallbackPerTopicCode ==
    (/\ pc = "done"
     /\ result = Ok("subscribe")
     /\ Len(GrantedOf(trace, rx)) = Len(Calls(trace, "on_subscribe")))
    => \A i \in DOMAIN Calls(trace, "on_subscribe") :
          Calls(trace, "on_subscribe")[i].data = <<GrantedOf(trace, rx)[i]>>

\* subscribe() of two topics returned on a SUBACK granting 0 and 1: both
\* callbacks were given 0 and the second byte is still in the stream.
C5_SecondCallbackGetsFirstCode ==
    /\ pc = "done"
    /\ result = Ok("subscribe")
    /\ GrantedOf(trace, rx) = <<0, 1>>
    /\ Len(Calls(trace, "on_subscribe")) = 2
    /\ Calls(trace, "on_subscribe")[2].data = <<0>>

\* C6: a subscribe() that reads a SUBACK with one granted byte per topic, one
\* of them 0x80, raises MMQTTException and adds nothing to the subscription
\* list.
C6_RefusedTopicNotAdded ==
    [][\A g \in GrantedLists :
          (/\ pc = "subscribe"
           /\ rx = SubAckPkt(frame.pid, g)
           /\ Len(g) = Len(frame.topics)
           /\ \E i \in DOMAIN g : g[i] = 128)
          => /\ pc' = "done"
             /\ result'.exc = "MMQTTException"
             /\ _subscribed_topics' = _subscribed_topics]_vars

\* subscribe() of two topics returned normally on a SUBACK granting 0 and
\* 0x80, and the refused topic is in the subscription list.
C6_RefusedTopicAdded ==
    /\ pc = "done"
    /\ result = Ok("subscribe")
    /\ GrantedOf(trace, rx) = <<0, 128>>
    /\ Len(Calls(trace, "on_subscribe")) = 2
    /\ InList(TopicB, _subscribed_topics)

\* C7: once the UNSUBACK (0xB0, remaining length 2, the packet id of the
\* request) is in the stream of a blocked unsubscribe(), the call eventually
\* returns.
C7_UnsubscribeReturns ==
    (pc = "unsubscribe" /\ rx = UnsubAckPkt(frame.pid)) ~> (pc = "done")

\* A blocked unsubscribe() read the opcode of its UNSUBACK and went on waiting.
C7_UnsubackNotRecognised ==
    /\ pc = "unsubscribe"
    /\ result = Running("unsubscribe")
    /\ Reads(trace) # <<>>
    /\ Reads(trace)[1].data = <<176>>
    /\ rx = <<2>> \o PackH(frame.pid)

\* C8: unsubscribe() with a topic (the string, or any element of the list)
\* that is not in the subscription list raises MMQTTException, writes nothing
\* and leaves the subscription list and the packet id counter unchanged.
C8_UnsubscribeUnknownTopic ==
    [][\A req \in UnsubRequests : \A f \in UnsubForms(req), c \in ClosedOutcomes :
          (/\ Unsubscribe(req, f, c)
           /\ \E i \in DOMAIN req : ~InList(req[i], _subscribed_topics))
          => /\ pc' = "done"
             /\ result'.exc = "MMQTTException"
             /\ trace' = <<>>
             /\ _subscribed_topics' = _subscribed_topics
             /\ _pid' = _pid]_vars

\* unsubscribe() was refused on a connected client that has a subscription.
C8_UnknownTopicRefused ==
    /\ pc = "done"
    /\ result.op = "unsubscribe"
    /\ result.text = "Topic must be subscribed to before attempting to unsubscribe."
    /\ _is_connected
    /\ _subscribed_topics = <<TopicA>>

\* C9: during reconnect(resub_topics=True), a topic whose SUBSCRIBE has just
\* been acknowledged, and that has no other entry in the subscription list,
\* is not subscribed again.
C9_ResubscribeOncePerTopic ==
    [][(/\ pc = "subscribe"
        /\ frame.caller = "reconnect"
        /\ ~InList(frame.topics[1][1], _subscribed_topics))
       => ~(/\ pc' = "subscribe"
            /\ frame'.pid # frame.pid
            /\ frame'.topics = frame.topics)]_vars

\* reconnect() has had a resubscription acknowledged, the list is empty, and
\* it has sent a further SUBSCRIBE.
C9_ResubscribedAgain ==
    /\ pc = "subscribe"
    /\ frame.caller = "reconnect"
    /\ _subscribed_topics = <<>>
    /\ Calls(trace, "on_subscribe") # <<>>
    /\ Writes(trace) # <<>>

\* C10: on a client whose socket disconnect() has closed, publish(),
\* subscribe() and ping() raise MMQTTException('MiniMQTT is not connected.'),
\* neither write nor read, and leave the session disconnected.
C10_CallsAfterDisconnect ==
    [][(/\ _sock = "closed"
        /\ pc = "idle"
        /\ result'.op \in {"publish", "subscribe", "ping"})
       => /\ pc' = "done"
          /\ result'.exc = "MMQTTException"
          /\ result'.text = "MiniMQTT is not connected."
          /\ trace' = <<>>
          /\ rx' = rx
          /\ _is_connected' = FALSE
          /\ _sock' = "closed"]_vars

\* subscribe() was refused after a disconnect() that followed a subscription.
C10_RefusedAfterDisconnect ==
    /\ pc = "done"
    /\ _sock = "closed"
    /\ result.op = "subscribe"
    /\ result.exc = "MMQTTException"
    /\ _subscribed_topics # <<>>

\* C11: disconnect() on a connected client writes the DISCONNECT packet,
\* closes the socket, clears self._is_connected and then calls on_disconnect
\* once, in that order, and returns; disconnect() on a client whose socket
\* it has closed raises MMQTTException, writes nothing and calls nothing.
C11_DisconnectOrder ==
    [][Disconnect =>
         IF _is_connected
         THEN /\ trace' = <<[ev |-> "write", name |-> "", topic |-> <<>>,
                             data |-> <<224, 0>>, conn |-> TRUE],
                            [ev |-> "close", name |-> "", topic |-> <<>>,
                             data |-> <<>>, conn |-> TRUE],
                            [ev |-> "cb", name |-> "on_disconnect", topic |-> <<>>,
                             data |-> <<0>>, conn |-> FALSE]>>
              /\ result' = Ok("disconnect")
              /\ _is_connected' = FALSE
              /\ _sock' = "closed"
         ELSE _sock = "closed"
              => /\ result'.exc = "MMQTTException"
                 /\ trace' = <<>>
                 /\ _is_connected' = FALSE
                 /\ _sock' = "closed"]_vars

\* disconnect() was refused on a client whose socket is closed.
C11_SecondDisconnectRefused ==
    /\ pc = "done"
    /\ result.op = "disconnect"
    /\ result.exc = "MMQTTException"
    /\ _sock = "closed"

\* The return code table of the CONNACK packet, as the protocol fixes it.
RefusalText(code) ==
    CASE code = 1 -> "Connection Refused - Incorrect Protocol Version"
      [] code = 2 -> "Connection Refused - ID Rejected"
      [] code = 3 -> "Connection Refused - Server unavailable"
      [] code = 4 -> "Connection Refused - Incorrect username/password"
      [] code = 5 -> "Connection Refused - Unauthorized"

\* C12: a connect() made while disconnected that reads a CONNACK (0x20, 0x02)
\* whose return code is one of 1..5 raises MMQTTException with the table's
\* text for that code, leaves the session disconnected and does not call
\* on_connect.
C12_ConnectRefused ==
    (/\ pc = "done"
     /\ result.op = "connect"
     /\ trace # <<>>
     /\ trace[1].conn = FALSE
     /\ Len(Reads(trace)) = 1
     /\ Len(Reads(trace)[1].data) = 4
     /\ Reads(trace)[1].data[1] = 32
     /\ Reads(trace)[1].data[2] = 2
     /\ Reads(trace)[1].data[4] \in 1..5)
    => /\ result.exc = "MMQTTException"
       /\ result.text = RefusalText(Reads(trace)[1].data[4])
       /\ _is_connected = FALSE
       /\ Calls(trace, "on_connect") = <<>>

\* A connect() from the disconnected state was refused with code 2.
C12_RefusedIdRejected ==
    /\ pc = "done"
    /\ result.op = "connect"
    /\ trace[1].conn = FALSE
    /\ Reads(trace) # <<>>
    /\ Reads(trace)[1].data = <<32, 2, 0, 2>>
    /\ result.text = "Connection Refused - ID Rejected"
    /\ _is_connected = FALSE

\* C13: a connect() made while disconnected that reads a CONNACK (0x20, 0x02)
\* whose return code is neither 0 nor one of 1..5 raises MMQTTException, as
\* a refusal with a table code does, and leaves the session disconnected.
C13_UnknownCodeRefused ==
    (/\ pc = "done"
     /\ result.op = "connect"
     /\ trace # <<>>
     /\ trace[1].conn = FALSE
     /\ Len(Reads(trace)) = 1
     /\ Len(Reads(trace)[1].data) = 4
     /\ Reads(trace)[1].data[1] = 32
     /\ Reads(trace)[1].data[2] = 2
     /\ Reads(trace)[1].data[4] \notin 0..5)
    => /\ result.exc = "MMQTTException"
       /\ _is_connected = FALSE

\* A connect() that read return code 6 ended in KeyError.
C13_UnknownCodeKeyError ==
    /\ pc = "done"
    /\ result.op = "connect"
    /\ Reads(trace) # <<>>
    /\ Reads(trace)[1].data = <<32, 2, 0, 6>>
    /\ result.exc = "KeyError"
    /\ _is_connected = FALSE

\* C14: wait_for_msg() called while the stream starts with a PINGRESP
\* (0xD0, 0x00) consumes both bytes and returns None.
C14_PingrespConsumed ==
    [][\A c \in ClosedOutcomes :
          (/\ Poll(c)
           /\ _sock = "open"
           /\ Len(rx) >= 2
           /\ rx[1] = 208
           /\ rx[2] = 0)
          => /\ result' = Ok("wait_for_msg")
             /\ rx' = SubSeq(rx, 3, Len(rx))]_vars

\* wait_for_msg() returned the opcode of a PINGRESP and left its length byte
\* in the stream.
C14_PingrespSurfaced ==
    /\ pc = "done"
    /\ result.op = "wait_for_msg"
    /\ result.exc = ""
    /\ result.ret = <<208>>
    /\ rx = <<0>>

\* Where the first event of kind ev is in tr (0: nowhere).
FirstOf(tr, ev) ==
    IF \E i \in DOMAIN tr : tr[i].ev = ev
    THEN CHOOSE i \in DOMAIN tr : tr[i].ev = ev /\ \A j \in 1..(i - 1) : tr[j].ev # ev
    ELSE 0

\* C15: a step in which wait_for_msg() reads a whole PUBLISH for topic "a"
\* with payload "x" calls on_message once with that topic and payload; when
\* the packet has QoS 1 and packet id 7, the step then writes one PUBACK
\* carrying id 7 and nothing else; when it has QoS 0, the step writes nothing.
C15_InboundPublish ==
    /\ (trace # <<>> /\ trace[1].ev = "read" /\ trace[1].data = <<48, 4, 0, 1, 97, 120>>)
       => /\ Len(Calls(trace, "on_message")) = 1
          /\ Calls(trace, "on_message")[1].topic = <<97>>
          /\ Calls(trace, "on_message")[1].data = <<120>>
          /\ Writes(trace) = <<>>
    /\ (trace # <<>> /\ trace[1].ev = "read"
          /\ trace[1].data = <<50, 6, 0, 1, 97, 0, 7, 120>>)
       => /\ Len(Calls(trace, "on_message")) = 1
          /\ Calls(trace, "on_message")[1].topic = <<97>>
          /\ Calls(trace, "on_message")[1].data = <<120>>
          /\ Len(Writes(trace)) = 1
          /\ Writes(trace)[1].data = <<64, 2, 0, 7>>
          /\ FirstOf(trace, "cb") < FirstOf(trace, "write")

\* wait_for_msg() called by the application processed a QoS 1 PUBLISH.
C15_Qos1PublishProcessed ==
    /\ pc = "done"
    /\ result.op = "wait_for_msg"
    /\ result.ret = <<50>>
    /\ trace[1].data = <<50, 6, 0, 1, 97, 0, 7, 120>>
    /\ Len(Writes(trace)) = 1

-----------------------------------------------------------------------------
(* The remaining-length encoders of publish() and connect() against the
   decoder _recv_len(): a length is encoded into the packet buffer of the
   method, the bytes that follow the fixed-header byte are put on the inbound
   stream, and _recv_len() decodes them. *)

\* every length up to this one is tried, and the lengths of LargeLens
MaxSmallLen == 129

\* lengths at which the encoding gains a byte, and the largest length
LargeLens == {16383, 16384, 2097151, 2097152, 268435455}

LenValues == 0..MaxSmallLen \cup LargeLens

LenInit ==
    /\ _is_connected = FALSE
    /\ _sock = "unset"
    /\ _pid = 0
    /\ _subscribed_topics = <<>>
    /\ MQTT_PUB = MQTT_PUB_INIT
    /\ rx = <<>>
    /\ pc = "encode"
    /\ \E n \in LenValues, m \in {"publish", "connect"} :
          frame = [NoFrame EXCEPT !.sz = n, !.caller = m]
    /\ trace = <<>>
    /\ result = Running("encode")

\* The encoder of frame.caller applied to frame.sz.
EncodeLength ==
    /\ pc = "encode"
    /\ LET enc == IF frame.caller = "publish"
                  THEN PublishEncode(MQTT_PUB, frame.sz)
                  ELSE ConnectEncode(frame.sz)
       IN /\ MQTT_PUB' = IF frame.caller = "publish" THEN enc.pkt ELSE MQTT_PUB
          /\ frame' = [frame EXCEPT !.packet = enc.pkt]
          /\ IF enc.exc # ""
             THEN /\ pc' = "done"
                  /\ result' = Raised("encode", enc.exc)
                  /\ UNCHANGED rx
             ELSE /\ pc' = "decode"
                  /\ result' = Running("decode")
                  /\ rx' = Tail(enc.pkt)
    /\ UNCHANGED <<_is_connected, _sock, _pid, _subscribed_topics, trace>>

\* _recv_len() on the encoded bytes.
DecodeLength ==
    /\ pc = "decode"
    /\ LET l == RecvLen(rx, 0, 1) IN
          /\ rx' = l.rest
          /\ result' = Outcome("decode", l.exc, "", <<l.n>>)
          /\ pc' = "done"
    /\ UNCHANGED <<_is_connected, _sock, _pid, _subscribed_topics, MQTT_PUB, frame, trace>>

LenNext == EncodeLength \/ DecodeLength

LenSpec == LenInit /\ [][LenNext]_vars

\* C16: every remaining length from 0 to 268435455 that an encoder of the
\* client (publish, connect) is given is encoded without an exception, and
\* _recv_len() decodes the bytes back to the same length.
C16_LengthRoundTrip ==
    (pc = "done" /\ result.op \in {"encode", "decode"})
    => result = Outcome("decode", "", "", <<frame.sz>>)

\* The encoder of publish() raised IndexError on the length 128.
C16_PublishEncoderOverflow ==
    /\ pc = "done"
    /\ frame.caller = "publish"
    /\ frame.sz = 128
    /\ result = Raised("encode", "IndexError")

-----------------------------------------------------------------------------
(* __init__(): the construction of the client, before the calls of Next. *)

\* The password argument: None (the default) or a str.
PassNone == [kind |-> "none", bytes |-> <<>>]
PassStr(b) == [kind |-> "str", bytes |-> b]

\* The esp argument: None (the default), an object without the attribute
\* _gpio0, or an ESP32SPI interface.
EspArgs == {"none", "other", "esp32spi"}

PassArgs == {PassNone, PassStr(Pass)}

\* MQTT(socket, server_address, password=password, esp=esp): the exception
\* __init__ raises, "" when it returns.
InitExc(esp, password) ==
    IF esp = "none" THEN "NotImplementedError"
    ELSE IF esp = "other" THEN "MMQTTException"
    ELSE IF password.kind = "none" THEN "AttributeError"
    ELSE IF Len(password.bytes) > MQTT_TOPIC_LENGTH_LIMIT THEN "MMQTTException"
    ELSE IF Len(ClientId) > 23 \/ Len(ClientId) = 0 THEN "ValueError"
    ELSE ""

\* No client yet.
NewInit ==
    /\ _is_connected = FALSE
    /\ _sock = "unset"
    /\ _pid = 0
    /\ _subscribed_topics = <<>>
    /\ MQTT_PUB = MQTT_PUB_INIT
    /\ rx = <<>>
    /\ pc = "new"
    /\ frame = NoFrame
    /\ trace = <<>>
    /\ result = Running("__init__")

\* The constructor call: it raises and there is no client (pc "failed"), or
\* it returns the client of Init.
Construct(esp, password) ==
    /\ pc = "new"
    /\ IF InitExc(esp, password) # ""
       THEN /\ pc' = "failed"
            /\ result' = Raised("__init__", InitExc(esp, password))
       ELSE /\ pc' = "idle"
            /\ result' = Ok("")
    /\ UNCHANGED <<_is_connected, _sock, _pid, _subscribed_topics, MQTT_PUB, rx, frame,
                   trace>>

NewNext ==
    \/ \E esp \in EspArgs, password \in PassArgs : Construct(esp, password)
    \/ Next

NewSpec == NewInit /\ [][NewNext]_vars

\* C17: constructing the client with a socket, a server address and an
\* ESP32SPI interface, the password left at its default None, returns a
\* client that is not connected.
C17_DefaultConstruction ==
    [][Construct("esp32spi", PassNone)
         => /\ pc' = "idle"
            /\ result'.exc = ""
            /\ _is_connected' = FALSE]_vars

\* The constructor raised AttributeError and there is no client.
C17_ConstructionFailed ==
    /\ pc = "failed"
    /\ result = Raised("__init__", "AttributeError")

\* C18: connect() with its default argument on a client that has never been
\* connected, when it reads a CONNACK with return code 0, returns a value
\* that is true in a boolean context (not None, not 0).
C18_ConnectReturnsTruthy ==
    [][\A nr \in NetReplies :
          (/\ _sock = "unset"
           /\ Connect(TRUE, nr[1], nr[2])
           /\ result'.exc = "")
          => result'.ret \notin {<<>>, <<0>>}]_vars

\* The first connect() of a client read a CONNACK without session present,
\* connected the session and returned 0.
C18_ConnectReturnedZero ==
    /\ pc = "done"
    /\ result = Outcome("connect", "", "", <<0>>)
    /\ _is_connected
    /\ Reads(trace)[1].data = <<32, 2, 0, 0>>
    /\ _pid = 0
    /\ _subscribed_topics = <<>>

\* C19: on a client that is not connected, whether connect() has been called
\* on it or not, disconnect(), ping(), publish() and subscribe() raise
\* MMQTTException.
C19_NotConnectedRaises ==
    [][(/\ pc = "idle"
        /\ _is_connected = FALSE
        /\ result'.op \in {"disconnect", "ping", "publish", "subscribe"})
       => result'.exc = "MMQTTException"]_vars

\* ping() on a client on which connect() was never called ended in
\* AttributeError.
C19_NeverConnectedAttributeError ==
    /\ pc = "done"
    /\ _sock = "unset"
    /\ result = Raised("ping", "AttributeError")
    /\ trace = <<>>

\* C20: connect() on a client that is connected raises MMQTTException and
\* does nothing else: no socket is opened, nothing is written or read,
\* on_connect is not called, and the session stays as it is.
C20_ConnectWhileConnected ==
    [][\A nr \in NetReplies :
          (_is_connected /\ Connect(TRUE, nr[1], nr[2]))
          => /\ result'.exc = "MMQTTException"
             /\ trace' = <<>>
             /\ _is_connected' = TRUE]_vars

\* connect() on a connected client opened a socket, completed a second
\* handshake and called on_connect.
C20_SecondHandshake ==
    /\ pc = "done"
    /\ result.op = "connect"
    /\ result.exc = ""
    /\ trace[1].ev = "open"
    /\ trace[1].conn = TRUE
    /\ Writes(trace) # <<>>
    /\ Len(Calls(trace, "on_connect")) = 1

-----------------------------------------------------------------------------
(* The packet id near the end of its two-byte range.  self._pid is a Python
   int that publish() steps by 1 and subscribe() and unsubscribe() step by 11;
   nothing brings it back. *)

\* A connected client whose earlier subscribe() calls, all refused by the
\* broker, have brought self._pid near PidLimit.
PidInit ==
    /\ _is_connected = TRUE
    /\ _sock = "open"
    /\ _pid \in {n \in PidHigh..PidLimit : n % 11 = 0}
    /\ _subscribed_topics = <<>>
    /\ MQTT_PUB = MQTT_PUB_INIT
    /\ rx = <<>>
    /\ pc = "idle"
    /\ frame = NoFrame
    /\ trace = <<>>
    /\ result = Ok("")

\* The calls that assign packet ids, and the broker's acknowledgments.
PidNext ==
    \/ \E t \in PubTopics, m \in Msgs, r \in BOOLEAN, q \in QosArgs : Publish(t, m, r, q)
    \/ PublishWait
    \/ \E req \in SubRequests : \E f \in SubForms(req) : Subscribe(req, f)
    \/ SubscribeWait
    \/ \E req \in UnsubRequests : \E f \in UnsubForms(req), c \in ClosedOutcomes :
          Unsubscribe(req, f, c)
    \/ \E c \in ClosedOutcomes : UnsubscribeWait(c)
    \/ Return
    \/ BrokerPuback
    \/ BrokerSuback
    \/ BrokerUnsuback

PidSpec == PidInit /\ [][PidNext]_vars

\* C21: whenever publish(qos=1), subscribe() or unsubscribe() assigns a packet
\* id, the id is non-zero and at most 65535, and the call encodes it: it does
\* not end in the error of an id that two bytes cannot hold.
C21_PacketIdFits ==
    [][(_pid' # _pid) =>
          /\ 1 <= _pid' /\ _pid' <= PidLimit
          /\ result'.exc \notin {"OverflowError", "struct.error"}]_vars

\* C21 witness: subscribe() assigned an id past 65535 and failed to encode it.
C21_IdPastLimit ==
    /\ result.op = "subscribe"
    /\ result.exc = "OverflowError"
    /\ _pid > PidLimit

\* C22: an unsubscribe() that returns has removed each of its topics from the
\* subscription list: none of them is in the list any more, so that a further
\* unsubscribe() of it would be refused.
C22_UnsubscribedTopicGone ==
    [][\A c \in ClosedOutcomes :
          (/\ UnsubscribeWait(c)
           /\ pc' = "done"
           /\ result'.exc = "")
          => \A i \in DOMAIN frame.topics :
                /\ ~InList(frame.topics[i], _subscribed_topics')
                /\ UnsubArgError(<<frame.topics[i]>>, _subscribed_topics') # ""]_vars

\* C22 witness: unsubscribe("a") has returned, on_unsubscribe was called for
\* "a", and "a" is still in the subscription list.
C22_StillSubscribed ==
    /\ pc = "done"
    /\ result.op = "unsubscribe"
    /\ result.exc = ""
    /\ Len(Calls(trace, "on_unsubscribe")) = 1
    /\ Calls(trace, "on_unsubscribe")[1].topic = TopicA
    /\ InList(TopicA, _subscribed_topics)

\* The stream buf begins with the bytes of pkt.
StartsWith(buf, pkt) == Len(buf) >= Len(pkt) /\ SubSeq(buf, 1, Len(pkt)) = pkt

\* A step of the loop of publish(qos=1) or subscribe() that finds a PUBLISH of
\* QoS q for topic "a", packet id 7 and payload "x" at the head of the stream
\* reads exactly that packet, calls on_message once with the topic and the
\* payload, writes a PUBACK with id 7 when q is 1 and nothing otherwise, and
\* goes on waiting.
C23_Delivered(q) ==
    LET pkt == PublishPkt(TopicA, q, 7, <<120>>) IN
    (/\ pc \in {"publish", "subscribe"}
     /\ StartsWith(rx, pkt)
     /\ PublishWait \/ SubscribeWait)
    => /\ Len(Calls(trace', "on_message")) = 1
       /\ Calls(trace', "on_message")[1].topic = TopicA
       /\ Calls(trace', "on_message")[1].data = <<120>>
       /\ Len(Writes(trace')) = (IF q = 1 THEN 1 ELSE 0)
       /\ q = 1 => Writes(trace')[1].data = <<64, 2, 0, 7>>
       /\ rx' = SubSeq(rx, Len(pkt) + 1, Len(rx))
       /\ pc' = pc
       /\ frame' = frame
       /\ result' = result

\* publish(qos=1) returns only in a step that reads the PUBACK carrying its
\* packet id; subscribe() records its topics only in a step that reads a
\* SUBACK carrying the id of its request.
C23_ReturnsOnOwnAck ==
    /\ (pc = "publish" /\ pc' = "done" /\ result'.exc = "" /\ PublishWait)
       => StartsWith(rx, PubAckPkt(frame.pid))
    /\ (pc = "subscribe" /\ _subscribed_topics' # _subscribed_topics /\ SubscribeWait)
       => /\ Len(rx) >= 5
          /\ rx[1] = 144
          /\ <<rx[3], rx[4]>> = PackH(frame.pid)

\* C23: while publish(qos=1) or subscribe() waits for its
\* acknowledgment, an inbound PUBLISH of QoS 0 or 1 is delivered to on_message
\* (and PUBACKed when its QoS is 1) and does not end the wait; an inbound
\* PUBLISH of QoS 2 is delivered to on_message and ends the call with
\* AssertionError; the call returns normally only on its own acknowledgment.
C23_PublishDuringWait ==
    [][/\ \A q \in {0, 1} : C23_Delivered(q)
       /\ (/\ pc \in {"publish", "subscribe"}
           /\ StartsWith(rx, PublishPkt(TopicA, 2, 7, <<120>>))
           /\ PublishWait \/ SubscribeWait)
          => /\ Len(Calls(trace', "on_message")) = 1
             /\ pc' = "done"
             /\ result'.exc = "AssertionError"
       /\ C23_ReturnsOnOwnAck]_vars

\* C23, for a PUBLISH of any QoS: while publish(qos=1) or subscribe() waits for its
\* acknowledgment, every inbound PUBLISH, whatever its QoS, is delivered to
\* on_message and does not end the wait.
C23_AnyPublishDuringWait ==
    [][\A q \in {0, 1, 2} : C23_Delivered(q)]_vars

\* C23 witness: publish(qos=1) has processed an inbound QoS 1 PUBLISH, has
\* written its PUBACK, and is still waiting for its own acknowledgment.
C23_StillWaitingAfterPublish ==
    /\ pc = "publish"
    /\ result.exc = "running"
    /\ Len(Calls(trace, "on_message")) = 1
    /\ Len(Writes(trace)) = 1
    /\ Writes(trace)[1].data = <<64, 2, 0, 7>>

\* The first bytes of the packets a broker sends after the CONNACK: PUBLISH
\* (0x30..0x3f), PUBACK, SUBACK, UNSUBACK, PINGRESP.
BrokerHeaders == (48..63) \cup {64, 144, 176, 208}

\* The stream buf is a sequence of whole broker packets, each a header byte,
\* a remaining length below 128 and that many bytes: reading it starts at a
\* packet boundary and every later packet boundary is where its packets end.
RECURSIVE Framed(_)
Framed(buf) ==
    \/ buf = <<>>
    \/ /\ Len(buf) >= 2
       /\ buf[1] \in BrokerHeaders
       /\ buf[2] < 128
       /\ Len(buf) >= 2 + buf[2]
       /\ Framed(SubSeq(buf, 3 + buf[2], Len(buf)))

\* C24: when wait_for_msg(), publish(), subscribe(), unsubscribe() or ping()
\* has returned normally, what is left of the inbound stream starts at a
\* packet boundary: it is a sequence of whole broker packets.
C24_FramingKept ==
    (/\ pc = "done"
     /\ result.exc = ""
     /\ result.op \in {"wait_for_msg", "publish", "subscribe", "unsubscribe", "ping"})
    => Framed(rx)

\* C24 witness: subscribe() returned normally on a SUBACK and left the last
\* byte of that SUBACK in the stream.
C24_SubackByteLeft ==
    /\ pc = "done"
    /\ result.op = "subscribe"
    /\ result.exc = ""
    /\ Len(Reads(trace)) = 2
    /\ Reads(trace)[1].data = <<144>>
    /\ Reads(trace)[2].data[1] = 4
    /\ rx = <<1>>

\* C25: on a client whose socket disconnect() has closed, a call of
\* publish(), subscribe(), unsubscribe(), ping() or wait_for_msg() neither
\* writes to the socket nor reads from it.
C25_ClosedTransportUntouched ==
    (/\ _sock = "closed"
     /\ ~_is_connected
     /\ result.op \in {"publish", "subscribe", "unsubscribe", "ping", "wait_for_msg"})
    => /\ Reads(trace) = <<>>
       /\ Writes(trace) = <<>>

\* C25 witness: after disconnect(), unsubscribe() of a recorded topic wrote
\* its UNSUBSCRIBE packet to the closed socket.
C25_UnsubscribeWroteAfterDisconnect ==
    /\ _sock = "closed"
    /\ ~_is_connected
    /\ result.op = "unsubscribe"
    /\ _subscribed_topics = <<TopicA>>
    /\ Len(Writes(trace)) = 1
    /\ Writes(trace)[1].data[1] = 162
    /\ ~Writes(trace)[1].conn

====
